---- MODULE Spec2Model ----
(***************************************************************************)
(* Yahtzee (src/main.rs): the turn state machine of main(), the menu       *)
(* validation of menu_choice(), the dice, and the thirteen score sections  *)
(* with their three scoring rules.                                         *)
(***************************************************************************)
EXTENDS Integers, Sequences, FiniteSets, TLC

(* ----------------------------- bounds ---------------------------------- *)
\* How many rows of DrawTable the random source may draw a die's face from.
NumDraws == 2
\* Sections 1..Deferrable may be left open while a later section is committed;
\* the other sections are committed top to bottom.
Deferrable == 0

(* ------------------------- program constants --------------------------- *)
MAX_ROLLS == 3
NUM_DICE == 5
NUM_SECTIONS == 13
U8 == 256

DieIdx == 1..NUM_DICE
SecIdx == 1..NUM_SECTIONS

VARIABLES
    game_dice,    \* [DieIdx -> [num, frozen]]
    rolls,        \* u8, rolls left in the turn
    scorecard,    \* [SecIdx -> [filled, points]]
    total_score,  \* the total printed at the top of the loop
    pc,           \* where main() waits: "menu", "freeze", "pick", or ended
    choice,       \* the last integer get_int returned
    outcome       \* what the program answered to the last input

vars == <<game_dice, rolls, scorecard, total_score, pc, choice, outcome>>

(* ------------------------------- dice ---------------------------------- *)
DefaultDie == [num |-> 0, frozen |-> FALSE]

\* Faces the random source is explored with; every entry is in 1..6.
DrawTable ==
    << <<1, 2, 3, 4, 5>>,
       <<6, 2, 3, 4, 5>>,
       <<3, 2, 3, 4, 5>>,
       <<2, 2, 2, 5, 6>>,
       <<4, 4, 2, 4, 6>>,
       <<6, 6, 6, 6, 6>> >>

\* rand::thread_rng().gen_range(1..7) for die i, cut down to NumDraws faces.
gen_range(i) == {DrawTable[k][i] : k \in 1..NumDraws}

\* Variant: the frozen flag is not consulted.
roll_ignores_frozen(die, face) == [die EXCEPT !.num = face]

\* Variant: rolling releases the die.
roll_unfreezes(die, face) ==
    IF ~die.frozen THEN [die EXCEPT !.num = face] ELSE [die EXCEPT !.frozen = FALSE]

\* Die::roll with the drawn face given.
roll(die, face) == IF ~die.frozen THEN [die EXCEPT !.num = face] ELSE die

(* --------------------------- score sections ---------------------------- *)
\* The thirteen sections built in main(): rule kind and value.
SectionKind(i) ==
    IF i <= 6 THEN 1
    ELSE IF i <= 9 THEN 2
    ELSE IF i <= 12 THEN 3
    ELSE 2

SectionValue(i) ==
    IF i <= 6 THEN i
    ELSE IF i <= 9 THEN i - 4
    ELSE IF i <= 12 THEN i - 7
    ELSE 0

EmptyScore == [filled |-> FALSE, points |-> 0]

RECURSIVE SumNums(_, _)
SumNums(dice, n) == IF n = 0 THEN 0 ELSE dice[n].num + SumNums(dice, n - 1)

RECURSIVE SumMatching(_, _, _)
SumMatching(dice, value, n) ==
    IF n = 0 THEN 0
    ELSE (IF dice[n].num = value THEN dice[n].num ELSE 0) + SumMatching(dice, value, n - 1)

\* Variant: the matching dice are subtracted instead of added.
calc_score1_subtracts(value, dice) == 0 - SumMatching(dice, value, NUM_DICE)

\* Variant: the matching dice are counted, not added up.
calc_score1_counts(value, dice) ==
    Cardinality({i \in DieIdx : dice[i].num = value})

\* Section1::calc_score
calc_score1(value, dice) == SumMatching(dice, value, NUM_DICE)

\* Variant: the mode has to exceed the section's value.
calc_score2_strict(value, dice) ==
    LET counts == [f \in {dice[i].num : i \in DieIdx} |->
                      Cardinality({i \in DieIdx : dice[i].num = f})]
        mode == CHOOSE m \in {counts[f] : f \in DOMAIN counts} :
                   \A f \in DOMAIN counts : counts[f] <= m
        dice_total == SumNums(dice, NUM_DICE)
    IN  IF mode > value THEN dice_total ELSE 0

\* Section2::calc_score
calc_score2(value, dice) ==
    LET counts == [f \in {dice[i].num : i \in DieIdx} |->
                      Cardinality({i \in DieIdx : dice[i].num = f})]
        mode == CHOOSE m \in {counts[f] : f \in DOMAIN counts} :
                   \A f \in DOMAIN counts : counts[f] <= m
        dice_total == SumNums(dice, NUM_DICE)
    IN  IF mode >= value THEN dice_total ELSE 0

\* Variant: the straight of five only looks for 2, 3, 4 and 5.
calc_score3_no_boundary_test(value, dice) ==
    LET present == {dice[i].num : i \in DieIdx}
        has(n) == n \in present
        straight ==
            IF value = 5 THEN has(2) /\ has(3) /\ has(4) /\ has(5)
            ELSE IF value = 4 THEN
                \/ has(1) /\ has(2) /\ has(3) /\ has(4)
                \/ has(2) /\ has(3) /\ has(4) /\ has(5)
                \/ has(3) /\ has(4) /\ has(5) /\ has(6)
            ELSE IF value = 3 THEN
                \/ has(1) /\ has(2) /\ has(3)
                \/ has(2) /\ has(3) /\ has(4)
                \/ has(3) /\ has(4) /\ has(5)
                \/ has(4) /\ has(5) /\ has(6)
            ELSE FALSE
    IN  IF straight THEN (value * 10) % U8 ELSE 0

\* Section3::calc_score
calc_score3(value, dice) ==
    LET present == {dice[i].num : i \in DieIdx}
        has(n) == n \in present
        early5 == IF ~has(1) THEN ~has(6) ELSE has(6)
        straight ==
            IF value = 5 THEN has(2) /\ has(3) /\ has(4) /\ has(5)
            ELSE IF value = 4 THEN
                \/ has(1) /\ has(2) /\ has(3) /\ has(4)
                \/ has(2) /\ has(3) /\ has(4) /\ has(5)
                \/ has(3) /\ has(4) /\ has(5) /\ has(6)
            ELSE IF value = 3 THEN
                \/ has(1) /\ has(2) /\ has(3)
                \/ has(2) /\ has(3) /\ has(4)
                \/ has(3) /\ has(4) /\ has(5)
                \/ has(4) /\ has(5) /\ has(6)
            ELSE FALSE
    IN  IF value = 5 /\ early5 THEN 0
        ELSE IF straight THEN (value * 10) % U8 ELSE 0

\* scorecard[i].calc_score(&game_dice), dispatched on the section's type.
calc_score(i, dice) ==
    IF SectionKind(i) = 1 THEN calc_score1(SectionValue(i), dice)
    ELSE IF SectionKind(i) = 2 THEN calc_score2(SectionValue(i), dice)
    ELSE calc_score3(SectionValue(i), dice)

\* Variant: a section counts as filled once it holds points.
is_filled_by_points(score) == score.points # 0

\* Section::is_filled
is_filled(score) == score.filled

\* set_score's two assertions.
set_score_asserts(score) == score.points = 0 /\ ~score.filled

\* Variant: the points are stored but the section is not marked filled.
set_score_keeps_open(score, points) == [filled |-> score.filled, points |-> points]

\* set_score once its assertions passed.
set_score(score, points) == [filled |-> TRUE, points |-> points]

\* Variant: the last section is not looked at.
empty_section_skips_last(sc) == \E i \in 1..(NUM_SECTIONS - 1) : ~sc[i].filled

\* empty_section: is some section still open?
empty_section(sc) == \E i \in SecIdx : ~is_filled(sc[i])

RECURSIVE SumPoints(_, _)
SumPoints(sc, n) == IF n = 0 THEN 0 ELSE sc[n].points + SumPoints(sc, n - 1)

\* Variant: the total is assigned, not accumulated.
get_score_last(sc) == sc[NUM_SECTIONS].points

\* get_score: the points of all thirteen sections added up.
get_score(sc) == SumPoints(sc, NUM_SECTIONS)

\* Variant: the faces are cleared but the dice stay frozen.
reset_turn_keeps_frozen(dice) == [i \in DieIdx |-> [dice[i] EXCEPT !.num = 0]]

\* reset_turn's effect on the dice.
reset_turn(dice) == [i \in DieIdx |-> [num |-> 0, frozen |-> FALSE]]

(* ------------------------------ input ---------------------------------- *)
\* get_int only ever returns an integer in min..max.
get_int(min, max) == min..max

\* Variant: the out-of-rolls test is missing.
menu_choice_no_exhausted_check(r, c) ==
    IF c = 0 THEN "return"
    ELSE IF r = MAX_ROLLS /\ c # 1 THEN "Please roll first."
    ELSE "return"

\* Variant: the has-not-rolled-yet test is missing.
menu_choice_no_fresh_check(r, c) ==
    IF c = 0 THEN "return"
    ELSE IF r = 0 /\ c # MAX_ROLLS THEN "Please pick a score section."
    ELSE "return"

\* Variant: out of rolls, only the roll is refused.
menu_choice_exhausted_refuses_roll_only(r, c) ==
    IF c = 0 THEN "return"
    ELSE IF r = 0 /\ c = 1 THEN "Please pick a score section."
    ELSE IF r = MAX_ROLLS /\ c # 1 THEN "Please roll first."
    ELSE "return"

\* Variant: before the first roll, only the freeze is refused.
menu_choice_fresh_allows_score(r, c) ==
    IF c = 0 THEN "return"
    ELSE IF r = 0 /\ c # MAX_ROLLS THEN "Please pick a score section."
    ELSE IF r = MAX_ROLLS /\ c = 2 THEN "Please roll first."
    ELSE "return"

\* Variant: quitting is tested after the two refusals.
menu_choice_quit_tested_last(r, c) ==
    IF r = 0 /\ c # MAX_ROLLS THEN "Please pick a score section."
    ELSE IF r = MAX_ROLLS /\ c # 1 THEN "Please roll first."
    ELSE "return"

\* menu_choice: what it does with an in-range choice at `r` rolls left.
menu_choice(r, c) ==
    IF c = 0 THEN "return"
    ELSE IF r = 0 /\ c # MAX_ROLLS THEN "Please pick a score section."
    ELSE IF r = MAX_ROLLS /\ c # 1 THEN "Please roll first."
    ELSE "return"

\* The head of the while loop in main(): loop condition, then the assertions.
loop_top(r, sc) ==
    IF ~empty_section(sc) THEN "over"
    ELSE IF r > MAX_ROLLS THEN "panic"
    ELSE "menu"

\* Variant: nothing is taken off.
sub_u8_keeps(a, b) == a

\* u8 subtraction as a release build does it.
sub_u8(a, b) == (a + U8 - b) % U8

(* ------------------------------ state ---------------------------------- *)
Init ==
    /\ game_dice = [i \in DieIdx |-> DefaultDie]
    /\ rolls = MAX_ROLLS
    /\ scorecard = [i \in SecIdx |-> EmptyScore]
    /\ total_score = 0
    /\ pc = "menu"
    /\ choice = 0
    /\ outcome = "start"

\* menu_choice re-prompts: the choice is refused and nothing else happens.
MenuRejected(c) ==
    /\ pc = "menu"
    /\ menu_choice(rolls, c) # "return"
    /\ choice' = c
    /\ outcome' = menu_choice(rolls, c)
    /\ UNCHANGED <<game_dice, rolls, scorecard, total_score, pc>>

\* Arm 0: quit.
Quit ==
    /\ pc = "menu"
    /\ menu_choice(rolls, 0) = "return"
    /\ choice' = 0
    /\ outcome' = "quit"
    /\ pc' = "quit"
    /\ UNCHANGED <<game_dice, rolls, scorecard, total_score>>

\* Arm 1: rolls -= 1, then every die rolls.
Roll ==
    /\ pc = "menu"
    /\ menu_choice(rolls, 1) = "return"
    /\ choice' = 1
    /\ \/ /\ rolls = 0                  \* debug build: the subtraction panics
          /\ pc' = "panic"
          /\ outcome' = "panic"
          /\ UNCHANGED <<game_dice, rolls, scorecard, total_score>>
       \/ /\ \E f1 \in gen_range(1), f2 \in gen_range(2), f3 \in gen_range(3),
                   f4 \in gen_range(4), f5 \in gen_range(5) :
                LET faces == <<f1, f2, f3, f4, f5>>
                IN  game_dice' = [i \in DieIdx |-> roll(game_dice[i], faces[i])]
          /\ rolls' = sub_u8(rolls, 1)
          /\ pc' = loop_top(rolls', scorecard)
          /\ outcome' = IF pc' = "panic" THEN "panic" ELSE "rolled"
          /\ UNCHANGED <<scorecard, total_score>>

\* Arm 2 is entered: the program now asks which die.
FreezeMenu ==
    /\ pc = "menu"
    /\ menu_choice(rolls, 2) = "return"
    /\ choice' = 2
    /\ outcome' = "which die"
    /\ pc' = "freeze"
    /\ UNCHANGED <<game_dice, rolls, scorecard, total_score>>

\* Variant: the named die is frozen, never released.
ToggleFreezeOnlyFreezes(d) ==
    /\ pc = "freeze"
    /\ choice' = d
    /\ IF d # 0
       THEN /\ game_dice' = [game_dice EXCEPT ![d].frozen = TRUE]
            /\ outcome' = "toggled"
       ELSE /\ UNCHANGED game_dice
            /\ outcome' = "cancelled"
    /\ pc' = loop_top(rolls, scorecard)
    /\ UNCHANGED <<rolls, scorecard, total_score>>

\* Arm 2, the die is named: 0 cancels, d flips die d.
ToggleFreeze(d) ==
    /\ pc = "freeze"
    /\ choice' = d
    /\ IF d # 0
       THEN /\ game_dice' = [game_dice EXCEPT ![d].frozen = ~game_dice[d].frozen]
            /\ outcome' = "toggled"
       ELSE /\ UNCHANGED game_dice
            /\ outcome' = "cancelled"
    /\ pc' = loop_top(rolls, scorecard)
    /\ UNCHANGED <<rolls, scorecard, total_score>>

\* Arm 3 is entered: the program now asks which section.
ScoreMenu ==
    /\ pc = "menu"
    /\ menu_choice(rolls, 3) = "return"
    /\ choice' = 3
    /\ outcome' = "which section"
    /\ pc' = "pick"
    /\ UNCHANGED <<game_dice, rolls, scorecard, total_score>>

\* Arm 3, a section is named.
PickSection(s) ==
    /\ pc = "pick"
    /\ choice' = s
    /\ IF ~is_filled(scorecard[s])
       THEN IF set_score_asserts(scorecard[s])
            THEN /\ scorecard' = [scorecard EXCEPT
                                    ![s] = set_score(@, calc_score(s, game_dice))]
                 /\ total_score' = get_score(scorecard')
                 /\ rolls' = MAX_ROLLS
                 /\ game_dice' = reset_turn(game_dice)
                 /\ pc' = loop_top(rolls', scorecard')
                 /\ outcome' = "scored"
            ELSE /\ pc' = "panic"
                 /\ outcome' = "panic"
                 /\ UNCHANGED <<game_dice, rolls, scorecard, total_score>>
       ELSE /\ outcome' = "That section is already filled."
            /\ UNCHANGED <<game_dice, rolls, scorecard, total_score, pc>>

\* The sections the player is explored naming: the first open one, the first
\* open one past the deferrable ones, and the first and last filled ones.
Lowest(S) == {s \in S : \A t \in S : s <= t}
Highest(S) == {s \in S : \A t \in S : t <= s}
OpenPicks ==
    LET open == {s \in SecIdx : ~scorecard[s].filled}
    IN  Lowest(open) \cup Lowest({s \in open : s > Deferrable})
FilledPicks ==
    LET filled == {s \in SecIdx : scorecard[s].filled}
    IN  Lowest(filled) \cup Highest(filled)

Next ==
    \/ \E c \in get_int(0, MAX_ROLLS) : MenuRejected(c)
    \/ Quit
    \/ Roll
    \/ FreezeMenu
    \/ \E d \in get_int(0, NUM_DICE) : ToggleFreeze(d)
    \/ ScoreMenu
    \/ \E s \in get_int(1, NUM_SECTIONS) : s \in OpenPicks \cup FilledPicks /\ PickSection(s)

Spec == Init /\ [][Next]_vars


(* ------------------- every roll, every section ------------------------- *)
\* The game right after the first roll of the first turn and menu choice 3:
\* the five dice show any faces, and the program asks for a section.
InitScore ==
    /\ game_dice \in [DieIdx -> [num : 1..6, frozen : {FALSE}]]
    /\ rolls = MAX_ROLLS - 1
    /\ scorecard = [i \in SecIdx |-> EmptyScore]
    /\ total_score = 0
    /\ pc = "pick"
    /\ choice = 3
    /\ outcome = "which section"

\* Any of the thirteen sections is named.
NextScore == \E s \in get_int(1, NUM_SECTIONS) : PickSection(s)

SpecScore == InitScore /\ [][NextScore]_vars

(* ======================= properties of the game ======================== *)
Waiting == {"menu", "freeze", "pick"}
AllDiceReset == \A i \in DieIdx : game_dice[i] = [num |-> 0, frozen |-> FALSE]
OpenSections == {s \in SecIdx : ~scorecard[s].filled}

RECURSIVE SumFilled(_, _)
SumFilled(sc, n) ==
    IF n = 0 THEN 0
    ELSE (IF sc[n].filled THEN sc[n].points ELSE 0) + SumFilled(sc, n - 1)

\* C1: a Roll (menu choice 1) issued with no rolls left is refused with the
\* out-of-rolls message, and the step leaves rolls, every die and every
\* section as they were.
C1_RollRejectedWhenExhausted ==
    [][(pc = "menu" /\ rolls = 0 /\ choice' = 1)
         => /\ outcome' = "Please pick a score section."
            /\ pc' = "menu"
            /\ UNCHANGED <<rolls, game_dice, scorecard>>]_vars

C1_Witness ==
    /\ pc = "menu" /\ rolls = 0 /\ choice = 1
    /\ outcome = "Please pick a score section."
    /\ \E i \in DieIdx : game_dice[i].frozen

\* C2: the step that commits an open section leaves rolls = 3 and all five
\* dice with face 0 and unfrozen.
C2_ScoreResetsTurn ==
    [][(pc = "pick" /\ choice' \in SecIdx /\ ~scorecard[choice'].filled)
         => /\ rolls' = 3
            /\ \A i \in DieIdx : game_dice'[i].num = 0 /\ ~game_dice'[i].frozen]_vars

C2_Witness ==
    /\ outcome = "scored" /\ choice \in SecIdx
    /\ scorecard[choice].filled /\ scorecard[choice].points > 0
    /\ rolls = 3 /\ AllDiceReset

\* C3: naming a filled section at the section prompt is refused: the whole
\* scorecard, the dice, rolls and the total stay as they were and the program
\* asks again.
C3_FilledSectionRejected ==
    [][(pc = "pick" /\ choice' \in SecIdx /\ scorecard[choice'].filled)
         => /\ UNCHANGED <<scorecard, game_dice, rolls, total_score>>
            /\ pc' = "pick"
            /\ outcome' = "That section is already filled."]_vars

C3_Witness ==
    /\ pc = "pick" /\ outcome = "That section is already filled."
    /\ choice \in SecIdx /\ scorecard[choice].filled
    /\ rolls < 3 /\ \E i \in DieIdx : game_dice[i].num # 0

\* C4: for every section, filled never goes back to false, points changes only
\* in the step that turns filled from false to true, and never afterwards.
C4_CommitOnce ==
    [][\A s \in SecIdx :
          /\ scorecard[s].filled =>
                scorecard'[s].filled /\ scorecard'[s].points = scorecard[s].points
          /\ scorecard'[s].points # scorecard[s].points =>
                ~scorecard[s].filled /\ scorecard'[s].filled]_vars

C4_Witness ==
    /\ outcome = "rolled"
    /\ \E s, t \in SecIdx : /\ s # t
                           /\ scorecard[s].filled /\ scorecard[s].points > 0
                           /\ scorecard[t].filled /\ scorecard[t].points = 0

\* C5: whenever the game waits for input, the total it shows is the sum of the
\* points of the filled sections.
C5_TotalIsSumOfFilled ==
    pc \in Waiting => total_score = SumFilled(scorecard, NUM_SECTIONS)

C5_Witness ==
    /\ pc = "menu" /\ total_score > 0
    /\ Cardinality(SecIdx \ OpenSections) >= 2
    /\ OpenSections # {}

\* C6: the total never decreases in a step.
C6_TotalMonotone == [][total_score' >= total_score]_vars

C6_Witness ==
    /\ outcome = "scored" /\ choice \in SecIdx
    /\ scorecard[choice].points > 0 /\ total_score > scorecard[choice].points

\* C7: the game is over exactly when no section is open: while it waits for a
\* command some section is open, the loop is left in the step that fills the
\* last open section, and nothing happens after that.
C7_EndsWhenFull ==
    [][/\ (pc' = "over") <=> (\A s \in SecIdx : scorecard'[s].filled)
       /\ pc' \in Waiting => \E s \in SecIdx : ~scorecard'[s].filled
       /\ (pc' = "over" /\ pc # "over") =>
             /\ pc = "pick" /\ choice' \in SecIdx
             /\ {s \in SecIdx : ~scorecard[s].filled} = {choice'}
       /\ pc # "over"]_vars

C7_Witness ==
    /\ pc = "over" /\ outcome = "scored"
    /\ \A s \in SecIdx : scorecard[s].filled

\* C8: in a step that rolls, every unfrozen die ends with a face in 1..6 and
\* every frozen die keeps its face.
C8_RollRespectsFreeze ==
    [][(pc = "menu" /\ choice' = 1 /\ outcome' = "rolled")
         => \A i \in DieIdx :
               IF game_dice[i].frozen
               THEN game_dice'[i].num = game_dice[i].num
               ELSE game_dice'[i].num \in 1..6]_vars

C8_Witness ==
    /\ outcome = "rolled"
    /\ \E i, j \in DieIdx : game_dice[i].frozen /\ ~game_dice[j].frozen

\* C9: rolls stays within 0..3 and no assertion or subtraction fails.
C9_RollsInRange == rolls \in 0..3 /\ pc # "panic"

C9_Witness == rolls = 0 /\ outcome = "rolled" /\ pc = "menu"

\* C10 as stated: choosing freeze (menu choice 2) is accepted whenever the menu
\* is shown, so the program goes on to ask which die.
C10_FreezeAcceptedAnyTime ==
    [][(pc = "menu" /\ choice' = 2) => pc' = "freeze"]_vars

\* C10 amended: before the first roll of a turn (rolls = 3) choosing
\* freeze is refused with "Please roll first." and changes nothing, and no die
\* is ever frozen while its face is still 0.
C10_FreezeRefusedBeforeRoll ==
    [][/\ (pc = "menu" /\ rolls = MAX_ROLLS /\ choice' = 2)
            => /\ outcome' = "Please roll first."
               /\ pc' = "menu"
               /\ UNCHANGED <<rolls, game_dice, scorecard>>
       /\ \A i \in DieIdx : ~(game_dice'[i].frozen /\ game_dice'[i].num = 0)]_vars

C10_Witness ==
    /\ pc = "menu" /\ rolls = MAX_ROLLS /\ choice = 2
    /\ outcome = "Please roll first."
    /\ \E s \in SecIdx : scorecard[s].filled


\* C11 as stated: with no rolls left only the roll is refused; choosing freeze
\* (menu choice 2) is accepted and the program asks which die, and choosing
\* score (menu choice 3) is accepted.
C11_ExhaustedFreezeAccepted ==
    [][(pc = "menu" /\ rolls = 0)
         => /\ choice' = 2 => pc' = "freeze"
            /\ choice' = 3 => pc' = "pick"]_vars

\* C11 amended: with no rolls left the roll and the freeze are both refused
\* with "Please pick a score section." and change no die, no frozen flag, no
\* section and not rolls; choosing score is accepted.
C11_ExhaustedOnlyScore ==
    [][(pc = "menu" /\ rolls = 0)
         => /\ choice' \in {1, 2} =>
                 /\ outcome' = "Please pick a score section."
                 /\ pc' = "menu"
                 /\ UNCHANGED <<rolls, game_dice, scorecard>>
            /\ choice' = 3 =>
                 /\ pc' = "pick"
                 /\ UNCHANGED <<rolls, game_dice, scorecard>>]_vars

C11_Witness ==
    /\ pc = "menu" /\ rolls = 0 /\ choice = 2
    /\ outcome = "Please pick a score section."


\* C12: before the first roll of a turn (rolls = 3) the menu accepts only the
\* roll (and quit): freeze and score are refused with "Please roll first." and
\* change nothing, and a section is only ever committed after a roll in the
\* same turn.
C12_FreshOnlyRoll ==
    [][/\ (pc = "menu" /\ rolls = MAX_ROLLS) =>
            /\ choice' \in {2, 3} =>
                 /\ outcome' = "Please roll first."
                 /\ pc' = "menu"
                 /\ UNCHANGED <<rolls, game_dice, scorecard, total_score>>
            /\ choice' = 1 => outcome' = "rolled"
       /\ scorecard' # scorecard => rolls < MAX_ROLLS]_vars

C12_Witness ==
    /\ pc = "menu" /\ rolls = MAX_ROLLS /\ choice = 3
    /\ outcome = "Please roll first."

\* C13: quit (menu choice 0) can be taken whenever the menu is shown, with 3,
\* 2, 1 or 0 rolls left; the step changes no die, no section, not rolls and
\* not the total, and after it nothing happens any more.
C13_QuitEndsSession ==
    [][/\ pc = "menu" => ENABLED Quit
       /\ (pc = "menu" /\ choice' = 0) =>
            /\ pc' = "quit"
            /\ UNCHANGED <<rolls, game_dice, scorecard, total_score>>
       /\ pc # "quit"]_vars

C13_Witness ==
    /\ pc = "quit" /\ rolls = 0
    /\ \E i \in DieIdx : game_dice[i].frozen
    /\ \E s \in SecIdx : scorecard[s].filled


(* ===================== properties of the scoring rules ================= *)
FacesOf(dice) == {dice[i].num : i \in DieIdx}
CountOf(dice, f) == Cardinality({i \in DieIdx : dice[i].num = f})
DiceSum(dice) == dice[1].num + dice[2].num + dice[3].num + dice[4].num + dice[5].num
HasRun(dice, len) ==
    \E a \in 1..(7 - len) : \A k \in a..(a + len - 1) : k \in FacesOf(dice)

\* C14: committing a straight section (length 3, 4 or 5) on any five faces in
\* 1..6 stores length * 10 if the faces present contain `length` consecutive
\* faces and 0 otherwise; for length 5 it stores 50 exactly when the faces
\* present are {1,2,3,4,5} or {2,3,4,5,6}.
C14_StraightScore ==
    [][(pc = "pick" /\ choice' \in SecIdx /\ SectionKind(choice') = 3
          /\ ~scorecard[choice'].filled)
         => LET len == SectionValue(choice')
                pts == scorecard'[choice'].points
            IN  /\ len \in {3, 4, 5}
                /\ pts = IF HasRun(game_dice, len) THEN len * 10 ELSE 0
                /\ len = 5 =>
                     (pts = 50 <=> FacesOf(game_dice) \in {1..5, 2..6})]_vars

C14_Witness ==
    /\ scorecard[12].filled /\ scorecard[12].points = 50
    /\ outcome = "scored" /\ choice = 12

\* C15: committing an n-of-a-kind section (threshold 3, 4, 5, or 0 for Chance)
\* on any five faces in 1..6 stores the sum of the five dice if some face
\* shows on at least `threshold` dice and 0 otherwise; Chance always stores
\* the sum.
C15_NOfAKindScore ==
    [][(pc = "pick" /\ choice' \in SecIdx /\ SectionKind(choice') = 2
          /\ ~scorecard[choice'].filled)
         => LET threshold == SectionValue(choice')
                pts == scorecard'[choice'].points
            IN  /\ threshold \in {0, 3, 4, 5}
                /\ pts = IF \E f \in 1..6 : CountOf(game_dice, f) >= threshold
                         THEN DiceSum(game_dice) ELSE 0
                /\ threshold = 0 => pts = DiceSum(game_dice)]_vars

C15_Witness ==
    /\ scorecard[7].filled /\ scorecard[7].points = 17
    /\ outcome = "scored" /\ choice = 7

\* C16: committing a number section (face 1..6) on any five faces in 1..6
\* stores the face times the number of dice showing it.
C16_NumberMatchScore ==
    [][(pc = "pick" /\ choice' \in SecIdx /\ SectionKind(choice') = 1
          /\ ~scorecard[choice'].filled)
         => LET face == SectionValue(choice')
            IN  /\ face \in 1..6
                /\ scorecard'[choice'].points = face * CountOf(game_dice, face)]_vars

C16_Witness ==
    /\ scorecard[4].filled /\ scorecard[4].points = 12
    /\ outcome = "scored" /\ choice = 4


(* ================== further properties of the game ===================== *)
\* C17: naming die i at the die prompt flips the frozen flag of die i and
\* nothing else: all faces, the other four flags, rolls and the scorecard stay,
\* so toggling the same die again gives back the dice as they were.
C17_ToggleFlipsOneFlag ==
    [][(pc = "freeze" /\ choice' \in DieIdx)
         => /\ game_dice'[choice'].frozen = ~game_dice[choice'].frozen
            /\ \A i \in DieIdx : game_dice'[i].num = game_dice[i].num
            /\ \A i \in DieIdx \ {choice'} : game_dice'[i].frozen = game_dice[i].frozen
            /\ UNCHANGED <<rolls, scorecard, total_score>>
            /\ [game_dice' EXCEPT ![choice'].frozen = ~game_dice'[choice'].frozen]
                 = game_dice]_vars

C17_Witness ==
    /\ outcome = "toggled" /\ choice \in DieIdx
    /\ ~game_dice[choice].frozen /\ game_dice[choice].num # 0
    /\ \E j \in DieIdx : game_dice[j].frozen

\* C18: a roll that is accepted (menu choice 1 with rolls > 0) takes exactly
\* one from rolls and leaves every frozen flag and the scorecard as they were;
\* with all five dice frozen the roll is still consumed and no face changes.
C18_RollFrame ==
    [][(pc = "menu" /\ rolls > 0 /\ choice' = 1)
         => /\ rolls' = rolls - 1
            /\ \A i \in DieIdx : game_dice'[i].frozen = game_dice[i].frozen
            /\ UNCHANGED <<scorecard, total_score>>
            /\ (\A i \in DieIdx : game_dice[i].frozen) => game_dice' = game_dice]_vars

C18_Witness ==
    /\ outcome = "rolled" /\ choice = 1 /\ rolls = 0
    /\ \A i \in DieIdx : game_dice[i].frozen

\* C19: with rolls = 3 all five dice show 0 and are unfrozen, with rolls < 3
\* all five dice show a face in 1..6, and a section is only ever scored on
\* five faces in 1..6.
C19_DiceMatchRolls ==
    [][/\ rolls' = MAX_ROLLS =>
             \A i \in DieIdx : game_dice'[i].num = 0 /\ ~game_dice'[i].frozen
       /\ rolls' < MAX_ROLLS => \A i \in DieIdx : game_dice'[i].num \in 1..6
       /\ scorecard' # scorecard => \A i \in DieIdx : game_dice[i].num \in 1..6]_vars

C19_Witness ==
    /\ outcome = "scored" /\ rolls = MAX_ROLLS /\ AllDiceReset
    /\ Cardinality(SecIdx \ OpenSections) >= 2

\* C20: an open section always holds 0 points and neither assertion of
\* set_score ever fails, also when a section committed with 0 points is named
\* again.
C20_OpenSectionsHoldZero ==
    /\ \A s \in SecIdx : ~scorecard[s].filled => scorecard[s].points = 0
    /\ outcome # "panic"

C20_Witness ==
    /\ pc = "pick" /\ outcome = "That section is already filled."
    /\ choice \in SecIdx /\ scorecard[choice].filled /\ scorecard[choice].points = 0


\* C21: rolls counts the accepted rolls of a turn down from 3: it changes only
\* by an accepted roll, which takes exactly one off and needs one left, and by
\* a commit, which sets it back to 3. A commit happens only with rolls in 0..2,
\* so between two commits, and before the first, one to three rolls are
\* accepted, whatever freezes and refused commands come in between.
C21_OneToThreeRollsPerTurn ==
    [][LET committed == scorecard' # scorecard
           rolled == pc = "menu" /\ choice' = 1 /\ outcome' = "rolled"
       IN  /\ rolled => rolls \in 1..MAX_ROLLS /\ rolls' = rolls - 1
           /\ committed =>
                /\ MAX_ROLLS - rolls \in 1..MAX_ROLLS
                /\ rolls' = MAX_ROLLS
           /\ ~rolled /\ ~committed => rolls' = rolls
           /\ (pc = "menu" /\ choice' = 1 /\ rolls = 0) => ~rolled
           /\ MAX_ROLLS - rolls' \in 0..MAX_ROLLS]_vars

C21_Witness ==
    /\ pc = "pick" /\ rolls = 0 /\ outcome = "which section"
    /\ \E s \in SecIdx : scorecard[s].filled
    /\ \E i \in DieIdx : game_dice[i].frozen

====
